---- MODULE Spec2Model ----
(***************************************************************************)
(* Model of the weather polling daemon: the Weather Client (src/api.rs,    *)
(* struct Api with its three cache slots and make_request) and the Poll    *)
(* Scheduler (src/daemon.rs, daemon_main), started from main (src/main.rs) *)
(* after its one-shot request.                                             *)
(*                                                                         *)
(* Time is a discrete monotonic clock `now` (Instant::now()).  It advances *)
(* only at the two blocking points of the program: a network round trip    *)
(* (by a latency 0..env.max_latency) and the pacing sleep.                 *)
(* Option<T> is modelled as a sequence of length 0 (None) or 1 (Some).     *)
(***************************************************************************)
EXTENDS Integers, Sequences, FiniteSets, TLC

\* ---------------------------------------------------------------- bounds
MaxInterval == 2    \* exec_interval and notif_interval range over 1..MaxInterval
MaxTime     == 4    \* horizon of the clock in the small scenarios
MaxLatency  == 1    \* a network round trip takes 0..MaxLatency ticks
MaxAlerts   == 2    \* longest alert array a document carries
MaxVal      == 1    \* distinct payload contents of a successful document
MaxFetches  == 4    \* loop iterations explored in the small scenarios

\* ---------------------------------------------------------------- data
Category == {"current", "alerts", "forecast"}

None == <<>>
Some(x) == <<x>>

\* The alert records a provider document can list.
AlertRecords == {"a", "b"}

\* The elements of an alert array: a record or a JSON null.
AlertArrays ==
    UNION {[1..n -> AlertRecords \cup {"null"}] : n \in 0..MaxAlerts}

\* A provider document (json::JsonValue), reduced to the fields the program
\* looks at: the top-level "error" field, the shape and content of
\* ["alerts"]["alert"], and val standing for the rest of the content.
ErrorDoc == [error |-> TRUE, is_array |-> FALSE, alert |-> <<>>, val |-> 0]

WeatherDocs ==
    {[error |-> FALSE, is_array |-> FALSE, alert |-> <<>>, val |-> v] : v \in 1..MaxVal}

AlertDocs ==
    {[error |-> FALSE, is_array |-> TRUE, alert |-> a, val |-> 1] : a \in AlertArrays}
    \cup {[error |-> FALSE, is_array |-> FALSE, alert |-> <<>>, val |-> 1]}

\* The documents the provider can answer with on the endpoint of category c.
Documents(c) ==
    (IF c = "alerts" THEN AlertDocs ELSE WeatherDocs) \cup {ErrorDoc}

VARIABLES
    api_config,       \* ApiRequestConfiguration: [requests : [Category -> BOOLEAN]]
    daemon_config,    \* DaemonConfiguration: [exec_interval, notif_interval]
    env,              \* the environment: [max_latency, horizon, max_fetches]
    now,              \* Instant::now()
    pc,               \* position of the single thread of control
    in_daemon,        \* FALSE in main's one-shot request, TRUE inside daemon_main
    cache,            \* Api.cache_current / cache_alerts / cache_forecast
    response,         \* the ApiResponse being built / last returned
    start,            \* daemon_main: start
    last_iteration,   \* daemon_main: last_iteration
    last_notif,       \* daemon_main: last_notif
    \* history variables (observations, never read by the program)
    attempts,         \* network calls per category in the current make_request
    outcome,          \* outcome of the category's network call in the current make_request
    wire,             \* the document last received per category
    fetch_count,      \* make_request calls made by the daemon loop
    notif_count,      \* notification ticks of the daemon loop
    emit_last,        \* time of the last notification tick (Option)
    iter_start,       \* start time of the current loop iteration
    overran,          \* the iteration before the current one ended after iter_start + exec_interval
    tick_log,         \* the show() calls of the current notification tick, in order
    panic_cause,      \* why the process panicked ("none" while it runs)
    \* the parts of the program that are checked on their own
    boot,             \* main's loading of the persisted records
    codec,            \* one use of the Duration Codec
    query,            \* one rendering of a Location into the q parameter
    inst              \* main's daemon branch in one working directory

vars == <<api_config, daemon_config, env, now, pc, in_daemon, cache, response,
          start, last_iteration, last_notif, attempts, outcome, wire,
          fetch_count, notif_count, emit_last, iter_start, overran,
          tick_log, panic_cause, boot, codec, query, inst>>

polling_vars == <<api_config, daemon_config, env, now, pc, in_daemon, cache,
                  response, start, last_iteration, last_notif, attempts,
                  outcome, wire, fetch_count, notif_count, emit_last,
                  iter_start, overran, tick_log, panic_cause>>

\* boot and codec do not take part in the polling.
aside == <<boot, codec, query, inst>>

config_vars == <<api_config, daemon_config, env>>
clock_vars == <<start, last_iteration, last_notif>>
notif_hist == <<notif_count, emit_last>>
iter_hist == <<fetch_count, iter_start, overran, tick_log>>
call_hist == <<attempts, outcome, wire>>


\* ---------------------------------------------------------------- startup
\* The configurations a run starts from.  DaemonConfiguration and
\* ApiRequestConfiguration are built once in main and never change.
SmallScenarios ==
    {[dc  |-> [exec_interval |-> e, notif_interval |-> n],
      env |-> [max_latency |-> MaxLatency, horizon |-> MaxTime,
               max_fetches |-> MaxFetches]] :
        e \in 1..MaxInterval, n \in 1..MaxInterval}

\* refreshInterval = 60s, notifyInterval = 600s, instantaneous fetches,
\* observed for 620 seconds; 12 calls are one more than the run may make.
EndToEndScenario ==
    [dc  |-> [exec_interval |-> 60, notif_interval |-> 600],
     env |-> [max_latency |-> 0, horizon |-> 620, max_fetches |-> 12]]

Scenarios == SmallScenarios \cup {EndToEndScenario}

NoneEach == [c \in Category |-> None]

\* The persisted records not being loaded, the codec not being used.
BootIdle ==
    [pc |-> "idle", cli_key |-> FALSE, key_file |-> "text",
     api_file |-> "ok", daemon_file |-> "ok",
     api_key |-> None, api_from |-> "default", daemon_from |-> "default"]

CodecIdle ==
    [pc |-> "idle", input |-> <<>>, parsed |-> None, formatted |-> None,
     reparsed |-> None]
QueryIdle ==
    [pc |-> "idle", q |-> [variant |-> "Auto", a |-> <<>>, b |-> <<>>],
     token |-> None]
InstIdle ==
    [pc |-> "idle", other_running |-> FALSE, dir |-> "ok", logs |-> "ok",
     pid_file |-> "absent", kill |-> "none", start |-> "ok",
     result |-> "none", in_loop |-> FALSE]

\* Api::new: the three slots start empty; main then issues its one-shot
\* make_request before the daemon loop is entered.
Init ==
    /\ api_config \in [requests : [Category -> BOOLEAN]]
    /\ \E s \in Scenarios : daemon_config = s.dc /\ env = s.env
    /\ now = 0
    /\ pc = "mr_current"
    /\ in_daemon = FALSE
    /\ cache = NoneEach
    /\ response = NoneEach
    /\ start = 0
    /\ last_iteration = 0
    /\ last_notif = 0
    /\ attempts = [c \in Category |-> 0]
    /\ outcome = [c \in Category |-> "none"]
    /\ wire = NoneEach
    /\ fetch_count = 0
    /\ notif_count = 0
    /\ emit_last = None
    /\ iter_start = 0
    /\ overran = FALSE
    /\ tick_log = <<>>
    /\ panic_cause = "none"
    /\ boot = BootIdle
    /\ codec = CodecIdle
    /\ query = QueryIdle
    /\ inst = InstIdle

\* ---------------------------------------------------------------- Weather Client
get_cached_alerts == cache["alerts"]

\* The accessor reading the forecast slot.
get_cached_current_forecast == cache["forecast"]

get_cached_current == cache["current"]
get_cached_forecast == cache["forecast"]

\* The slot written with a timestamp that is not the current instant.
StoreSlot_no_stamp(doc, t) == Some([payload |-> doc, ts |-> 0])

\* Some((response.clone(), Instant::now()))
StoreSlot(doc, t) == Some([payload |-> doc, ts |-> t])

\* What a returned &JsonValue points at: the payload of slot ref in cache c.
Deref(ch, ref) == ch[ref][1].payload

\* make_request's match on the result of a per-category call: a document
\* whose top-level "error" is not null becomes ApiError, else Ok.
Classify(json, ref) ==
    IF ~json.error THEN [kind |-> "Ok", ref |-> ref]
    ELSE [kind |-> "ApiError", ref |-> ref]

\* Every category attempted, whatever its flag.
Enabled_always(c) == TRUE

\* requests.<category>.then(...): is the category attempted at all
Enabled(c) == api_config.requests[c]

\* The observation of one network call of category c.
Observe(c, what, got) ==
    /\ attempts' = [attempts EXCEPT ![c] = @ + 1]
    /\ outcome' = [outcome EXCEPT ![c] = what]
    /\ wire' = [wire EXCEPT ![c] = got]

\* request.send().unwrap() and json::parse(response.text().unwrap()).unwrap():
\* a transport failure or an unreadable body panics inside the call.
RequestPanics(c, d, cause) ==
    /\ now + d <= env.horizon
    /\ now' = now + d
    /\ pc' = "panicked"
    /\ panic_cause' = cause
    /\ Observe(c, "transport", wire[c])
    /\ UNCHANGED <<cache, response>>

\* make_current_request with the provider answering doc after d ticks:
\* the slot is overwritten and a reference to it is returned.
make_current_request(doc, d) ==
    /\ now + d <= env.horizon
    /\ now' = now + d
    /\ cache' = [cache EXCEPT !["current"] = StoreSlot(doc, now + d)]

make_alerts_request(doc, d) ==
    /\ now + d <= env.horizon
    /\ now' = now + d
    /\ cache' = [cache EXCEPT !["alerts"] = StoreSlot(doc, now + d)]

make_forecast_request(doc, d) ==
    /\ now + d <= env.horizon
    /\ now' = now + d
    /\ cache' = [cache EXCEPT !["forecast"] = StoreSlot(doc, now + d)]

\* The slot the reference returned by each per-category call points into.
\* make_request reborrows the Api three times through a raw pointer while
\* the references returned earlier are still held; no call writes a slot
\* another call's reference points into, so every build reads the same
\* payload through each reference and the reference is modelled as the
\* name of its slot.
ReturnedRef(c) == c

\* Where control goes when make_request returns.
AfterRequest == IF in_daemon THEN "check" ELSE "main_print"

\* make_request, field `current` of the ApiResponse literal.
RequestCurrent ==
    /\ pc = "mr_current"
    /\ IF Enabled("current")
       THEN \E d \in 0..env.max_latency :
              \/ \E doc \in Documents("current") :
                   /\ make_current_request(doc, d)
                   /\ response' = [response EXCEPT !["current"] =
                        Some(Classify(Deref(cache', ReturnedRef("current")),
                                      ReturnedRef("current")))]
                   /\ Observe("current", IF doc.error THEN "provider" ELSE "ok", Some(doc))
                   /\ pc' = "mr_alerts"
                   /\ UNCHANGED panic_cause
              \/ \E cause \in {"send_unwrap", "parse_unwrap"} :
                   RequestPanics("current", d, cause)
       ELSE /\ response' = [response EXCEPT !["current"] = None]
            /\ pc' = "mr_alerts"
            /\ UNCHANGED <<now, cache, call_hist, panic_cause>>
    /\ UNCHANGED <<aside, config_vars, in_daemon, clock_vars, notif_hist, iter_hist>>

\* make_request, field `alerts`.
RequestAlerts ==
    /\ pc = "mr_alerts"
    /\ IF Enabled("alerts")
       THEN \E d \in 0..env.max_latency :
              \/ \E doc \in Documents("alerts") :
                   /\ make_alerts_request(doc, d)
                   /\ response' = [response EXCEPT !["alerts"] =
                        Some(Classify(Deref(cache', ReturnedRef("alerts")),
                                      ReturnedRef("alerts")))]
                   /\ Observe("alerts", IF doc.error THEN "provider" ELSE "ok", Some(doc))
                   /\ pc' = "mr_forecast"
                   /\ UNCHANGED panic_cause
              \/ \E cause \in {"send_unwrap", "parse_unwrap"} :
                   RequestPanics("alerts", d, cause)
       ELSE /\ response' = [response EXCEPT !["alerts"] = None]
            /\ pc' = "mr_forecast"
            /\ UNCHANGED <<now, cache, call_hist, panic_cause>>
    /\ UNCHANGED <<aside, config_vars, in_daemon, clock_vars, notif_hist, iter_hist>>

\* make_request, field `forecast`; the ApiResponse is then returned.
RequestForecast ==
    /\ pc = "mr_forecast"
    /\ IF Enabled("forecast")
       THEN \E d \in 0..env.max_latency :
              \/ \E doc \in Documents("forecast") :
                   /\ make_forecast_request(doc, d)
                   /\ response' = [response EXCEPT !["forecast"] =
                        Some(Classify(Deref(cache', ReturnedRef("forecast")),
                                      ReturnedRef("forecast")))]
                   /\ Observe("forecast", IF doc.error THEN "provider" ELSE "ok", Some(doc))
                   /\ pc' = AfterRequest
                   /\ UNCHANGED panic_cause
              \/ \E cause \in {"send_unwrap", "parse_unwrap"} :
                   RequestPanics("forecast", d, cause)
       ELSE /\ response' = [response EXCEPT !["forecast"] = None]
            /\ pc' = AfterRequest
            /\ UNCHANGED <<now, cache, call_hist, panic_cause>>
    /\ UNCHANGED <<aside, config_vars, in_daemon, clock_vars, notif_hist, iter_hist>>


\* ---------------------------------------------------------------- Poll Scheduler
\* The observation of a loop iteration (and its make_request) beginning
\* at time t, the iteration before it having ended now.
BeginIteration(t) ==
    /\ fetch_count < env.max_fetches
    /\ fetch_count' = fetch_count + 1
    /\ iter_start' = t
    /\ overran' = (in_daemon /\ now - iter_start > daemon_config.exec_interval)
    /\ tick_log' = <<>>
    /\ attempts' = [c \in Category |-> 0]
    /\ outcome' = [c \in Category |-> "none"]
    /\ UNCHANGED wire

\* The shape of the alert field not looked at.
AlertIsArray_unchecked(slot) == TRUE

\* let alert_array = &response["alerts"]["alert"]; alert_array.is_array()
AlertIsArray(slot) == slot[1].payload.is_array

\* Every element of the array shown, null or not.
AlertsShown_no_null_check(a) == a

\* for alert in (0..).map(|i| &alert_array[i]) { if alert.is_null() { break; } .. }
\* the records visited before the first null (an index past the end is null)
RECURSIVE AlertsShown(_)
AlertsShown(a) ==
    IF a = <<>> \/ Head(a) = "null" THEN <<>>
    ELSE <<Head(a)>> \o AlertsShown(Tail(a))

\* A current-weather notification built whatever the slot holds.
ShownCurrent_always(slot) == <<"current">>

\* if let Some((response, _timestamp)) = api.get_cached_current() { .. }
\* what the current-weather block shows: one notification when the slot
\* is filled, nothing when it is empty
ShownCurrent(slot) == IF slot # None THEN <<"current">> ELSE <<>>

\* One show() call: what was shown and whether the call returned Ok.
Shown(what, ok) == [what |-> what, ok |-> ok]

\* The shows stopping at the first one that fails.
ShowOutcomes_stop_on_error(items) ==
    {[i \in 1..n |-> Shown(items[i], i < n)] : n \in 1..Len(items)}
    \cup {[i \in 1..Len(items) |-> Shown(items[i], TRUE)]}

\* if let Err(e) = Notification::new()...show() { println!(..) }
\* every item is shown in order; each show() may fail, which is printed
\* and changes nothing else
ShowOutcomes(items) ==
    {[i \in 1..Len(items) |-> Shown(items[i], f[i])] :
        f \in [1..Len(items) -> BOOLEAN]}

\* The notification clock started at the daemon's start.
InitialNotifClock_at_start == now

\* let mut last_notif = last_iteration - daemon_config.notif_interval
InitialNotifClock == now - daemon_config.notif_interval

\* main after its one-shot make_request: prints the cached documents (the
\* alerts rendering panics on a non-array) and, with --daemonize, enters
\* daemon_main, which initialises its three instants.
MainPrint ==
    /\ pc = "main_print"
    /\ IF get_cached_alerts # None /\ ~AlertIsArray(get_cached_alerts)
       THEN /\ pc' = "panicked"
            /\ panic_cause' = "alert_not_array"
            /\ UNCHANGED <<in_daemon, clock_vars, iter_hist, call_hist>>
       ELSE /\ pc' = "mr_current"
            /\ in_daemon' = TRUE
            /\ start' = now
            /\ last_iteration' = now
            /\ last_notif' = InitialNotifClock
            /\ BeginIteration(now)
            /\ UNCHANGED panic_cause
    /\ UNCHANGED <<aside, config_vars, now, cache, response, notif_hist>>

\* last_notif.elapsed() >= daemon_config.notif_interval
NotifDue == now - last_notif >= daemon_config.notif_interval

\* The notification clock left as it was.
ResetNotifClock_stale == last_notif

\* last_notif = Instant::now()
ResetNotifClock == now

\* daemon_main after make_request returned: the errors are printed, then
\* the notification clock is tested.  When no notification is due the loop
\* body is over and the next iteration starts at once.
Check ==
    /\ pc = "check"
    /\ IF NotifDue
       THEN /\ last_notif' = ResetNotifClock
            /\ pc' = "notif_current"
            /\ notif_count' = notif_count + 1
            /\ emit_last' = Some(now)
            /\ UNCHANGED <<iter_hist, call_hist>>
       ELSE /\ pc' = "mr_current"
            /\ BeginIteration(now)
            /\ UNCHANGED <<last_notif, notif_hist>>
    /\ UNCHANGED <<aside, config_vars, now, in_daemon, cache, response, start,
                   last_iteration, panic_cause>>

\* if let Some((response, _)) = api.get_cached_current() { .. show() .. }
NotifyCurrent ==
    /\ pc = "notif_current"
    /\ \E outs \in ShowOutcomes(ShownCurrent(get_cached_current)) :
         tick_log' = tick_log \o outs
    /\ pc' = "notif_alerts"
    /\ UNCHANGED <<aside, config_vars, now, in_daemon, cache, response, clock_vars,
                   call_hist, fetch_count, iter_start, overran, notif_hist, panic_cause>>

\* if let Some((response, _)) = api.get_cached_alerts() { .. }
NotifyAlerts ==
    /\ pc = "notif_alerts"
    /\ IF get_cached_alerts = None
       THEN /\ pc' = "pace"
            /\ UNCHANGED <<tick_log, panic_cause>>
       ELSE IF ~AlertIsArray(get_cached_alerts)
       THEN /\ pc' = "panicked"
            /\ panic_cause' = "alert_not_array"
            /\ UNCHANGED tick_log
       ELSE /\ \E outs \in ShowOutcomes(AlertsShown(get_cached_alerts[1].payload.alert)) :
                 tick_log' = tick_log \o outs
            /\ pc' = "pace"
            /\ UNCHANGED panic_cause
    /\ UNCHANGED <<aside, config_vars, now, in_daemon, cache, response, clock_vars,
                   call_hist, fetch_count, iter_start, overran, notif_hist>>

\* let next_iteration = last_iteration + daemon_config.exec_interval
next_iteration == last_iteration + daemon_config.exec_interval

\* The pacing at the end of the notification branch: last_iteration is set
\* to the current instant and the thread sleeps until next_iteration when
\* that is still ahead.
Pace ==
    /\ pc = "pace"
    /\ last_iteration' = now
    /\ now' = IF next_iteration > now THEN next_iteration ELSE now
    /\ now' <= env.horizon
    /\ pc' = "mr_current"
    /\ BeginIteration(now')
    /\ UNCHANGED <<aside, config_vars, in_daemon, cache, response, start, last_notif,
                   notif_hist, panic_cause>>

Next ==
    \/ RequestCurrent
    \/ RequestAlerts
    \/ RequestForecast
    \/ MainPrint
    \/ Check
    \/ NotifyCurrent
    \/ NotifyAlerts
    \/ Pace

Spec == Init /\ [][Next]_vars


\* ---------------------------------------------------------------- properties
\* A step in which category c made its network call.
Fetched(c) == attempts'[c] = attempts[c] + 1

\* make_request has returned in the current iteration.
Returned == pc \in {"main_print", "check", "notif_current", "notif_alerts", "pace"}

Ok(c) == Some([kind |-> "Ok", ref |-> c])
ApiError(c) == Some([kind |-> "ApiError", ref |-> c])

\* C1: when the provider answers a category's call with a document whose
\* top-level error field is set, the call returns the Provider error and
\* the category's slot (payload and timestamp) is what it was before.
C1_ProviderErrorKeepsSlot ==
    [][\A c \in Category :
         (Fetched(c) /\ outcome'[c] = "provider") =>
            /\ response'[c] = ApiError(c)
            /\ cache'[c] = cache[c]]_vars

\* C2: when a category's call fails in transport (or its body cannot be
\* read or parsed), the caller gets a Transport error value and the slot is
\* unchanged.
C2_TransportErrorReturned ==
    [][\A c \in Category :
         (Fetched(c) /\ outcome'[c] = "transport") =>
            /\ pc' # "panicked"
            /\ response'[c] # None
            /\ response'[c][1].kind = "RequestError"
            /\ cache'[c] = cache[c]]_vars

\* C3: the daemon is never terminated by a transport error or a provider
\* error of a fetch: it stops neither in the failed call nor on the
\* document the failed call left behind.
C3_FetchErrorsNeverTerminate ==
    (in_daemon /\ pc = "panicked") =>
        /\ panic_cause \notin {"send_unwrap", "parse_unwrap"}
        /\ ~(/\ panic_cause = "alert_not_array"
             /\ get_cached_alerts # None
             /\ get_cached_alerts[1].payload.error)

\* C4: when the work of a loop iteration took less than exec_interval, the
\* next iteration's make_request starts no earlier than exec_interval after
\* the start of that iteration.
C4_PacedIterations ==
    [][(/\ in_daemon
        /\ fetch_count' = fetch_count + 1
        /\ now - iter_start < daemon_config.exec_interval)
          => now' - iter_start >= daemon_config.exec_interval]_vars

\* The end-to-end run: refresh 60s, notify 600s, instantaneous fetches.
InEndToEnd ==
    /\ daemon_config = EndToEndScenario.dc
    /\ env = EndToEndScenario.env
    /\ in_daemon

\* C5: in the end-to-end run, within 620 seconds of the daemon's start,
\* make_request is called at most 11 times (and at least 10 times once the
\* 620 seconds are over), and the notification tick happens at most once and
\* not before the 600-second mark.
C5_EndToEnd ==
    (InEndToEnd /\ now - start <= 620) =>
        /\ fetch_count <= 11
        /\ (now - start = 620 /\ pc = "check" => fetch_count >= 10)
        /\ notif_count <= 1
        /\ (emit_last # None => emit_last[1] - start >= 600)

\* C6: a slot changes only in a successful fetch of its category; a
\* successful fetch over an existing entry stores the received payload
\* with a strictly newer timestamp; the timestamp never decreases.
C6_TimestampOnlyOnSuccess ==
    [][\A c \in Category :
         /\ (cache'[c] # cache[c] => (Fetched(c) /\ outcome'[c] = "ok"))
         /\ ((Fetched(c) /\ outcome'[c] = "ok" /\ cache[c] # None) =>
                /\ cache'[c][1].payload = wire'[c][1]
                /\ cache'[c][1].ts > cache[c][1].ts)
         /\ ((cache[c] # None /\ cache'[c] # None) =>
                cache'[c][1].ts >= cache[c][1].ts)]_vars

\* C7: a call answered by a document without a top-level error overwrites
\* the category's slot with (that document, now) and returns Ok with the
\* payload now stored in the slot.
C7_SuccessStoresAndReturns ==
    [][\A c \in Category :
         (Fetched(c) /\ outcome'[c] = "ok") =>
            /\ cache'[c] = Some([payload |-> wire'[c][1], ts |-> now'])
            /\ response'[c] = Ok(c)
            /\ Deref(cache', response'[c][1].ref) = wire'[c][1]]_vars

C7_Witness ==
    /\ in_daemon
    /\ pc = "check"
    /\ now > 0
    /\ cache["current"] # None /\ cache["current"][1].ts < now
    /\ outcome["alerts"] = "ok"
    /\ response["alerts"] = Ok("alerts")
    /\ cache["alerts"] = Some([payload |-> wire["alerts"][1], ts |-> now])

\* Network calls a category must have made once make_request is past it.
Due(c) == IF api_config.requests[c] THEN 1 ELSE 0

C9_CategoryIsolation ==
    /\ []((pc \notin {"mr_current", "mr_alerts", "mr_forecast"}) =>
            \A c \in Category : attempts[c] = Due(c))
    /\ [][\A c \in Category :
            cache'[c] # cache[c] => Fetched(c)]_vars

\* C10: the notification tick happens in an iteration, after its
\* make_request, exactly when the time since the last tick is at least
\* notif_interval; the tick resets the notification clock; two consecutive
\* ticks are at least notif_interval apart.
C10_NotifyWhenDue ==
    [][/\ (pc = "check" =>
             ((notif_count' = notif_count + 1) <=>
                (now - last_notif >= daemon_config.notif_interval)))
       /\ (notif_count' # notif_count =>
             /\ pc = "check"
             /\ notif_count' = notif_count + 1
             /\ \A c \in Category : attempts[c] = Due(c)
             /\ last_notif' = now'
             /\ (emit_last # None =>
                   now' - emit_last[1] >= daemon_config.notif_interval))]_vars

C10_Witness ==
    /\ pc = "notif_current"
    /\ notif_count = 2
    /\ fetch_count > 2
    /\ last_notif = now
    /\ now - start >= daemon_config.notif_interval



\* ---------------------------------------------------------------- notification tick
\* The show() calls a step adds to the tick.
Appended == SubSeq(tick_log', Len(tick_log) + 1, Len(tick_log'))

\* What a sequence of show() calls showed, in order.
What(outs) == [i \in 1..Len(outs) |-> outs[i].what]

\* The records of an alert array that precede its first null element.
Leading(a) ==
    LET k == CHOOSE k \in 0..Len(a) :
                /\ \A i \in 1..k : a[i] # "null"
                /\ (k = Len(a) \/ a[k + 1] = "null")
    IN  SubSeq(a, 1, k)

\* The alerts slot holds a document whose alert field is a list.
AlertsListed ==
    cache["alerts"] # None /\ cache["alerts"][1].payload.is_array

\* C11: at the alerts step of a notification tick, an alerts slot whose
\* alert field is not a list terminates the daemon: nothing is shown for
\* it and no further step is taken.
C11_NonListAlertsFatal ==
    [][/\ (/\ pc = "notif_alerts"
           /\ cache["alerts"] # None
           /\ ~cache["alerts"][1].payload.is_array)
          => (/\ pc' = "panicked"
              /\ panic_cause' = "alert_not_array"
              /\ tick_log' = tick_log)
       /\ pc # "panicked"]_vars

C11_Witness ==
    /\ in_daemon
    /\ pc = "panicked"
    /\ panic_cause = "alert_not_array"
    /\ notif_count >= 1
    /\ cache["alerts"] # None
    /\ ~cache["alerts"][1].payload.error
    /\ ~cache["alerts"][1].payload.is_array

\* C12: at the alerts step of a notification tick with a list-shaped
\* alerts payload, exactly the records before the first null element are
\* shown, one show() each, in the order of the list.
C12_OneNotificationPerAlert ==
    [][(pc = "notif_alerts" /\ AlertsListed) =>
          /\ SubSeq(tick_log', 1, Len(tick_log)) = tick_log
          /\ What(Appended) = Leading(cache["alerts"][1].payload.alert)
          /\ pc' = "pace"]_vars

C12_Witness ==
    /\ in_daemon
    /\ pc = "pace"
    /\ AlertsListed
    /\ cache["alerts"][1].payload.alert = <<"b", "a">>
    /\ cache["current"] = None
    /\ What(tick_log) = <<"b", "a">>

\* C13: in a notification tick a category whose slot is empty is skipped
\* without a notification and without an error, and the other category is
\* notified all the same.
C13_EmptySlotSkipped ==
    [][/\ (pc = "notif_current" /\ cache["current"] = None) =>
             (/\ tick_log' = tick_log
              /\ pc' = "notif_alerts"
              /\ panic_cause' = "none")
       /\ (pc = "notif_alerts" /\ cache["alerts"] = None) =>
             (/\ tick_log' = tick_log
              /\ pc' = "pace"
              /\ panic_cause' = "none")
       /\ (pc = "notif_current" /\ cache["current"] # None /\ cache["alerts"] = None) =>
             What(Appended) = <<"current">>
       /\ (pc = "notif_alerts" /\ AlertsListed /\ cache["current"] = None) =>
             (/\ tick_log = <<>>
              /\ What(tick_log') = Leading(cache["alerts"][1].payload.alert))]_vars

C13_Witness ==
    /\ in_daemon
    /\ pc = "pace"
    /\ cache["alerts"] = None
    /\ cache["current"] # None
    /\ What(tick_log) = <<"current">>
    /\ panic_cause = "none"

\* What a completed notification tick has shown, given the current and
\* alerts slots.
TickShows ==
    (IF cache["current"] # None THEN <<"current">> ELSE <<>>)
    \o (IF AlertsListed THEN Leading(cache["alerts"][1].payload.alert) ELSE <<>>)

\* C14: no step outside make_request changes a cache slot, and what a
\* notification tick shows is determined by the current and alerts slots
\* alone: the forecast slot is never shown.
C14_CacheReadOnlyOutsideFetch ==
    /\ [][(pc \in {"main_print", "check", "notif_current", "notif_alerts", "pace"})
            => cache' = cache]_vars
    /\ [](pc = "pace" => What(tick_log) = TickShows)

C14_Witness ==
    /\ in_daemon
    /\ pc = "pace"
    /\ cache["forecast"] # None
    /\ cache["current"] = None
    /\ cache["alerts"] = None
    /\ tick_log = <<>>

\* C15: a show() call that fails neither terminates the daemon nor cuts
\* the tick short: the step still shows everything it has to show and
\* control moves on towards the pacing and the next iteration.
C15_ShowFailureIgnored ==
    [][(/\ pc \in {"notif_current", "notif_alerts"}
        /\ \E i \in 1..Len(Appended) : ~Appended[i].ok)
          => /\ panic_cause' = "none"
             /\ pc' = (IF pc = "notif_current" THEN "notif_alerts" ELSE "pace")
             /\ What(Appended) =
                  (IF pc = "notif_current" THEN <<"current">>
                   ELSE Leading(cache["alerts"][1].payload.alert))]_vars

C15_Witness ==
    /\ in_daemon
    /\ pc = "pace"
    /\ panic_cause = "none"
    /\ Len(tick_log) = 3
    /\ ~tick_log[1].ok
    /\ ~tick_log[2].ok
    /\ tick_log[3].ok


\* ---------------------------------------------------------------- startup records
\* The polling part at rest, while another part is checked on its own.
PollingIdle ==
    /\ api_config = [requests |-> [c \in Category |-> FALSE]]
    /\ daemon_config = EndToEndScenario.dc
    /\ env = EndToEndScenario.env
    /\ now = 0
    /\ pc = "idle"
    /\ in_daemon = FALSE
    /\ cache = NoneEach
    /\ response = NoneEach
    /\ start = 0
    /\ last_iteration = 0
    /\ last_notif = 0
    /\ attempts = [c \in Category |-> 0]
    /\ outcome = [c \in Category |-> "none"]
    /\ wire = NoneEach
    /\ fetch_count = 0
    /\ notif_count = 0
    /\ emit_last = None
    /\ iter_start = 0
    /\ overran = FALSE
    /\ tick_log = <<>>
    /\ panic_cause = "none"

\* What the working directory can hold for a record: no file, a file that
\* cannot be read as the record, a file that can.
KeyFileStates == {"missing", "unreadable", "text"}
ConfigFileStates == {"missing", "malformed", "ok"}

\* main starts with any combination of the three files and with or
\* without --api-key.
InitStartup ==
    /\ PollingIdle
    /\ codec = CodecIdle
    /\ query = QueryIdle
    /\ inst = InstIdle
    /\ \E k \in KeyFileStates, a \in ConfigFileStates, d \in ConfigFileStates,
          cli \in BOOLEAN :
         boot = [pc |-> "load_key", cli_key |-> cli, key_file |-> k,
                 api_file |-> a, daemon_file |-> d,
                 api_key |-> None, api_from |-> "default",
                 daemon_from |-> "default"]

\* load_api_key: std::fs::read_to_string(api_key.ron), None on any error
load_api_key(file) == IF file = "text" THEN Some("file") ELSE None

\* args.api_key.clone().or_else(|| load_api_key(&working_directory))
ApiKeyOption ==
    IF boot.cli_key THEN Some("cli") ELSE load_api_key(boot.key_file)

\* main: the key is taken from the command line or from api_key.ron;
\* .expect(..) panics when there is none.
LoadApiKey ==
    /\ boot.pc = "load_key"
    /\ boot' = IF ApiKeyOption = None
               THEN [boot EXCEPT !.pc = "halted"]
               ELSE [boot EXCEPT !.pc = "load_config", !.api_key = ApiKeyOption]
    /\ UNCHANGED <<polling_vars, codec, query, inst>>

\* load_from_config, one record: the parsed file replaces the default,
\* a missing or unparsable file is reported and the default is kept
ConfigFrom(file) == IF file = "ok" THEN "file" ELSE "default"

\* load_from_config on api_config.ron and daemon_config.ron.
load_from_config ==
    /\ boot.pc = "load_config"
    /\ boot' = [boot EXCEPT !.pc = "apply_args",
                            !.api_from = ConfigFrom(boot.api_file),
                            !.daemon_from = ConfigFrom(boot.daemon_file)]
    /\ UNCHANGED <<polling_vars, codec, query, inst>>

\* main: the intervals, the request flags and the city of the command line
\* are written over the loaded records; startup is complete.
ApplyArgs ==
    /\ boot.pc = "apply_args"
    /\ boot' = [boot EXCEPT !.pc = "ready"]
    /\ UNCHANGED <<polling_vars, codec, query, inst>>

NextStartup ==
    \/ LoadApiKey
    \/ load_from_config
    \/ ApplyArgs

SpecStartup == InitStartup /\ [][NextStartup]_vars

\* C16: startup never halts on a missing or malformed persisted file, and
\* completes with the default of every record whose file is missing or
\* malformed.
C16_StartupTolerant ==
    /\ boot.pc # "halted"
    /\ (boot.pc = "ready" =>
          /\ (boot.api_file # "ok" => boot.api_from = "default")
          /\ (boot.daemon_file # "ok" => boot.daemon_from = "default")
          /\ boot.api_key # None)


\* ---------------------------------------------------------------- duration codec
\* Text is a sequence of one-character strings.  A u64 is four limbs of
\* sixteen bits, least significant first, so that the arithmetic keeps the
\* width of the source's integers.
Base == 2^16
Zero64 == [i \in 1..4 |-> 0]
Digits == <<"0", "1", "2", "3", "4", "5", "6", "7", "8", "9">>
DigitChars == {Digits[i] : i \in 1..Len(Digits)}
DigitVal(ch) == (CHOOSE i \in 1..Len(Digits) : Digits[i] = ch) - 1

\* x * k + c over the limbs of x; carry is what does not fit
RECURSIVE MulAdd(_, _, _)
MulAdd(x, k, c) ==
    IF x = <<>> THEN [limbs |-> <<>>, carry |-> c]
    ELSE LET t == Head(x) * k + c
             r == MulAdd(Tail(x), k, t \div Base)
         IN  [limbs |-> <<t % Base>> \o r.limbs, carry |-> r.carry]

\* x + y + c over limbs of equal count
RECURSIVE AddLimbs(_, _, _)
AddLimbs(x, y, c) ==
    IF x = <<>> THEN [limbs |-> <<>>, carry |-> c]
    ELSE LET t == Head(x) + Head(y) + c
             r == AddLimbs(Tail(x), Tail(y), t \div Base)
         IN  [limbs |-> <<t % Base>> \o r.limbs, carry |-> r.carry]

\* x / k and x % k for a small k
RECURSIVE DivMod(_, _)
DivMod(x, k) ==
    IF x = <<>> THEN [limbs |-> <<>>, rem |-> 0]
    ELSE LET hi == DivMod(Tail(x), k)
             t  == hi.rem * Base + Head(x)
         IN  [limbs |-> <<t \div k>> \o hi.limbs, rem |-> t % k]

IsZero(x) == \A i \in 1..Len(x) : x[i] = 0

\* the decimal digits of x, none for zero
RECURSIVE ToDecimal(_)
ToDecimal(x) ==
    IF IsZero(x) THEN <<>>
    ELSE LET d == DivMod(x, 10)
         IN  ToDecimal(d.limbs) \o <<Digits[d.rem + 1]>>

\* Display of an unsigned integer
Dec(x) == IF IsZero(x) THEN <<"0">> ELSE ToDecimal(x)

\* str::to_lowercase, on the letters the inputs are drawn from
Lower(ch) ==
    CASE ch = "S" -> "s"
      [] ch = "M" -> "m"
      [] ch = "H" -> "h"
      [] ch = "X" -> "x"
      [] OTHER -> ch

\* s.to_lowercase().replace(" ", "")
Normalize(s) ==
    SelectSeq([i \in 1..Len(s) |-> Lower(s[i])], LAMBDA ch : ch # " ")

pattern == {"s", "m", "h"}

\* s.split(pattern): the pieces between unit markers, the last one included
RECURSIVE SplitFrom(_, _)
SplitFrom(s, cur) ==
    IF s = <<>> THEN <<cur>>
    ELSE IF Head(s) \in pattern
         THEN <<cur>> \o SplitFrom(Tail(s), <<>>)
         ELSE SplitFrom(Tail(s), Append(cur, Head(s)))

Split(s) == SplitFrom(s, <<>>)

\* s.matches(pattern): the unit markers in order
Matches(s) == SelectSeq(s, LAMBDA ch : ch \in pattern)

\* Iterator::zip stops with the shorter side
Zip(a, b) ==
    [i \in 1..(IF Len(a) < Len(b) THEN Len(a) ELSE Len(b)) |->
        [text |-> a[i], unit |-> b[i]]]

\* u64::from_str digit loop: checked_mul(10) then checked_add(digit)
RECURSIVE ParseDigits(_, _)
ParseDigits(acc, rest) ==
    IF rest = <<>> THEN Some(acc)
    ELSE IF Head(rest) \notin DigitChars THEN None
    ELSE LET r == MulAdd(acc, 10, DigitVal(Head(rest)))
         IN  IF r.carry # 0 THEN None ELSE ParseDigits(r.limbs, Tail(rest))

\* text.parse::<u64>(): one leading "+" is accepted, "-" is not, there
\* must be a digit, the value must fit
parse_u64(text) ==
    LET body == IF text # <<>> /\ Head(text) = "+" THEN Tail(text) ELSE text
    IN  IF body = <<>> THEN None ELSE ParseDigits(Zero64, body)


\* Results of from_str: Ok(Duration), the two DurationParseError values,
\* or a panic that unwinds out of the function.
Parsed(total) == [tag |-> "Ok", secs |-> total]
Failed(tag) == [tag |-> tag, secs |-> Zero64]

\* seconds in one unit: val, val * 60, val * 3600
UnitFactor(unit) ==
    CASE unit = "s" -> 1
      [] unit = "m" -> 60
      [] unit = "h" -> 3600

\* The body of the for loop over the zipped pairs.  val * 60 and
\* val * 3600 are plain u64 multiplications: with overflow checks (debug
\* profile) an overflow panics, without them (release profile) it wraps.
\* dur += .. panics on overflow in every profile.
RECURSIVE Accumulate(_, _, _)
Accumulate(pairs, dur, checks) ==
    IF pairs = <<>> THEN Parsed(dur)
    ELSE LET val == parse_u64(Head(pairs).text)
         IN  IF val = None THEN Failed("InvalidNumber")
             ELSE LET prod == MulAdd(val[1], UnitFactor(Head(pairs).unit), 0)
                      sum  == AddLimbs(dur, prod.limbs, 0)
                  IN  IF prod.carry # 0 /\ checks THEN Failed("Panic")
                      ELSE IF sum.carry # 0 THEN Failed("Panic")
                      ELSE Accumulate(Tail(pairs), sum.limbs, checks)

\* DurationWrapper::from_str
from_str(s, checks) ==
    LET n == Normalize(s)
        matches == Zip(Split(n), Matches(n))
    IN  IF matches = <<>> THEN Failed("DurationNotFound")
        ELSE Accumulate(matches, Zero64, checks)

\* a small number as a u64
Small(n) == [i \in 1..Len(Zero64) |-> IF i = 1 THEN n ELSE 0]

\* let mins = secs / 60
mins(total) == DivMod(total, 60).limbs

\* secs left as it is
secs_not_reduced(total) == total

\* secs = secs % 60
secs(total) == Small(DivMod(total, 60).rem)

\* Display for DurationWrapper with only the minutes written
fmt_minutes_only(total) ==
    Dec(mins(total)) \o <<"m">>

\* Display for DurationWrapper: write!(f, "{mins}m{secs}s")
fmt(total) ==
    Dec(mins(total)) \o <<"m">> \o Dec(secs(total)) \o <<"s">>

\* Inputs: every text of at most MaxLen characters over the alphabet, the
\* texts the specification names, and texts at the edge of u64.
MaxLen == 3
Alphabet == {"0", "1", "9", "s", "m", "h", "x", " ", "M", "+", "-"}
ShortTexts == UNION {[1..n -> Alphabet] : n \in 0..MaxLen}
NamedTexts ==
    { <<"1","h","3","0","m","1","0","s">>,
      <<"3","0","m","5","m">>,
      <<"2","h">>,
      <<"a","b","c">>,
      <<"1","0","m","3","0","s">>,
      <<"1","0","m","3","0">>,
      <<"1","H"," ","3","0","M">> }
U64Max == <<"1","8","4","4","6","7","4","4","0","7","3","7","0","9","5","5","1","6","1","5">>
EdgeTexts ==
    { U64Max \o <<"s">>,
      <<"1","8","4","4","6","7","4","4","0","7","3","7","0","9","5","5","1","6","1","6","s">>,
      <<"3","0","7","4","4","5","7","3","4","5","6","1","8","2","5","8","6","1","m">>,
      <<"3","0","7","4","4","5","7","3","4","5","6","1","8","2","5","8","6","0","m">>,
      <<"5","1","2","4","0","9","5","5","7","6","0","3","0","4","3","2","h">>,
      U64Max \o <<"s","1","s">>,
      U64Max \o <<"s","1","s","x","s">> }
Inputs == ShortTexts \cup NamedTexts \cup EdgeTexts

InitCodec ==
    /\ PollingIdle
    /\ boot = BootIdle
    /\ query = QueryIdle
    /\ inst = InstIdle
    /\ \E s \in Inputs :
         codec = [pc |-> "parse", input |-> s, parsed |-> None,
                  formatted |-> None, reparsed |-> None]

\* parse(input); the build profile is not fixed by the source
ParseInput ==
    /\ codec.pc = "parse"
    /\ \E checks \in BOOLEAN :
         LET r == from_str(codec.input, checks)
         IN  codec' = [codec EXCEPT !.parsed = Some(r),
                         !.pc = IF r.tag = "Ok" THEN "format" ELSE "done"]
    /\ UNCHANGED <<polling_vars, boot, query, inst>>

\* format(Duration)
FormatParsed ==
    /\ codec.pc = "format"
    /\ codec' = [codec EXCEPT !.formatted = Some(fmt(codec.parsed[1].secs)),
                              !.pc = "reparse"]
    /\ UNCHANGED <<polling_vars, boot, query, inst>>

\* parse(format(Duration))
ReparseFormatted ==
    /\ codec.pc = "reparse"
    /\ \E checks \in BOOLEAN :
         codec' = [codec EXCEPT
                     !.reparsed = Some(from_str(codec.formatted[1], checks)),
                     !.pc = "done"]
    /\ UNCHANGED <<polling_vars, boot, query, inst>>

NextCodec ==
    \/ ParseInput
    \/ FormatParsed
    \/ ReparseFormatted

SpecCodec == InitCodec /\ [][NextCodec]_vars


\* ---------------------------------------------------------------- duration codec: properties
\* The value of a digit string, in limbs wide enough never to overflow on
\* the inputs: the reference the parsed value is compared with.
RECURSIVE DecValue(_, _)
DecValue(ds, acc) ==
    IF ds = <<>> THEN acc
    ELSE DecValue(Tail(ds), MulAdd(acc, 10, DigitVal(Head(ds))).limbs)

Wide(x) == x \o [i \in 1..(8 - Len(x)) |-> 0]

\* <non-negative integer><unit> segments, one or more, nothing else
WellFormed(s) ==
    /\ s # <<>>
    /\ s[Len(s)] \in pattern
    /\ \A i \in 1..Len(s) :
         /\ s[i] \in DigitChars \cup pattern
         /\ s[i] \in pattern => (i > 1 /\ s[i - 1] \in DigitChars)

\* seconds of one segment's unit as the specification gives them
ClaimedSeconds(unit) ==
    CASE unit = "s" -> 1
      [] unit = "m" -> 60
      [] unit = "h" -> 3600

\* sum over the segments of magnitude x seconds-per-unit, without a width
RECURSIVE SegmentSum(_, _, _)
SegmentSum(s, digits, total) ==
    IF s = <<>> THEN total
    ELSE IF Head(s) \in DigitChars
         THEN SegmentSum(Tail(s), Append(digits, Head(s)), total)
         ELSE SegmentSum(Tail(s), <<>>,
                AddLimbs(total,
                         MulAdd(DecValue(digits, Wide(<<>>)),
                                ClaimedSeconds(Head(s)), 0).limbs,
                         0).limbs)

\* C17: for an input that is a sequence of <non-negative integer><unit>
\* segments, parse returns Ok with the sum of magnitude x (1, 60, 3600)
\* seconds over all segments.
C17_ParseSums ==
    (codec.parsed # None /\ WellFormed(codec.input)) =>
        /\ codec.parsed[1].tag = "Ok"
        /\ Wide(codec.parsed[1].secs) = SegmentSum(codec.input, <<>>, Wide(<<>>))

\* positions of the unit markers of a normalised text, and the text between
\* a marker and the one before it
UnitPositions(n) == {j \in 1..Len(n) : n[j] \in pattern}
SegmentBefore(n, j) ==
    LET before == {i \in UnitPositions(n) : i < j}
        from == IF before = {} THEN 1
                ELSE 1 + CHOOSE i \in before : \A k \in before : k <= i
    IN  SubSeq(n, from, j - 1)

\* a non-negative integer: digits, one or more, after at most one "+"
NonNegativeInteger(text) ==
    LET body == IF text # <<>> /\ Head(text) = "+" THEN Tail(text) ELSE text
    IN  body # <<>> /\ \A i \in 1..Len(body) : body[i] \in DigitChars

\* C18: parse fails with InvalidNumber whenever the text before some unit
\* marker is not a non-negative integer, and with DurationNotFound whenever
\* the input has no unit marker at all.
C18_ParseErrors ==
    codec.parsed # None =>
        LET n == Normalize(codec.input)
        IN  /\ (\E j \in UnitPositions(n) : ~NonNegativeInteger(SegmentBefore(n, j)))
                  => codec.parsed[1].tag = "InvalidNumber"
            /\ UnitPositions(n) = {}
                  => codec.parsed[1].tag = "DurationNotFound"

\* made only of m and s segments with non-negative integer magnitudes
MinuteSecondInput(s) == WellFormed(s) /\ \A i \in 1..Len(s) : s[i] # "h"

\* C19: for an input made only of m and s segments, parse(format(parse(x)))
\* is the same result as parse(x).
C19_RoundTrip ==
    (MinuteSecondInput(codec.input) /\ codec.reparsed # None) =>
        codec.reparsed = codec.parsed

C19_Witness ==
    /\ codec.input = <<"9", "0", "s">>
    /\ codec.formatted = Some(<<"1", "m", "3", "0", "s">>)
    /\ codec.reparsed # None
    /\ codec.reparsed = codec.parsed

\* a decimal numeral as Display writes it: digits, no leading zero
Numeral(ds) ==
    /\ ds # <<>>
    /\ \A i \in 1..Len(ds) : ds[i] \in DigitChars
    /\ Len(ds) > 1 => Head(ds) # "0"

\* C20: the formatted text is "<minutes>m<seconds>s" with two numerals,
\* seconds < 60 and minutes * 60 + seconds the duration's seconds, it holds
\* no h, and format(parse("2h")) is "120m0s".
C20_FormatMinutesSeconds ==
    codec.formatted # None =>
        LET f == codec.formatted[1]
            total == codec.parsed[1].secs
        IN  /\ \E i \in 2..(Len(f) - 2) :
                  LET minutes == SubSeq(f, 1, i - 1)
                      rest == SubSeq(f, i + 1, Len(f) - 1)
                  IN  /\ f[i] = "m"
                      /\ f[Len(f)] = "s"
                      /\ Numeral(minutes)
                      /\ Numeral(rest)
                      /\ Len(rest) <= 2
                      /\ DecValue(rest, Wide(<<>>))[1] < 60
                      /\ MulAdd(DecValue(minutes, Wide(<<>>)), 60,
                                DecValue(rest, Wide(<<>>))[1]).limbs = Wide(total)
            /\ \A i \in 1..Len(f) : f[i] # "h"
            /\ codec.input = <<"2", "h">> => f = <<"1", "2", "0", "m", "0", "s">>

C20_Witness ==
    /\ codec.input = <<"2", "h">>
    /\ codec.formatted = Some(<<"1", "2", "0", "m", "0", "s">>)


\* ---------------------------------------------------------------- location token
\* A Location is [variant, a, b]: a holds the variant's value (text for the
\* String variants, a usize for USZip and SearchID, the latitude for
\* Coordinate), b the longitude of a Coordinate.  An f64 of the inputs is
\* [neg, whole, tenths].
MaxText == 2
CodeAlphabet == {"K", "J", " "}
CodeTexts ==
    UNION {[1..n -> CodeAlphabet] : n \in 0..MaxText} \cup {<<"K", "J", "F", "K">>}
Floats == [neg : BOOLEAN, whole : {Small(0), Small(47)}, tenths : {0, 5}]
Sizes == {Small(0), Small(42), Small(49931), [i \in 1..Len(Zero64) |-> Base - 1]}
StringVariants == {"City", "Post", "Metar", "Iata", "IP"}
SizeVariants == {"USZip", "SearchID"}

\* Display for f64 on these values: the sign, the integer part, and the
\* fraction only when there is one ("47", "-47.5", "-0")
DisplayF64(x) ==
    (IF x.neg THEN <<"-">> ELSE <<>>) \o Dec(x.whole)
        \o (IF x.tenths = 0 THEN <<>> ELSE <<".", Digits[x.tenths + 1]>>)

\* impl Display for Location with the arm of Metar written as the arm of City
Display_metar_raw(q) ==
    CASE q.variant = "Coordinate" -> DisplayF64(q.a) \o <<",">> \o DisplayF64(q.b)
      [] q.variant = "City" -> q.a
      [] q.variant = "USZip" -> Dec(q.a)
      [] q.variant = "Post" -> q.a
      [] q.variant = "Metar" -> q.a
      [] q.variant = "Iata" -> <<"i", "a", "t", "a", ":">> \o q.a
      [] q.variant = "Auto" -> <<"a", "u", "t", "o", ":", "i", "p">>
      [] q.variant = "IP" -> q.a
      [] q.variant = "SearchID" -> <<"i", "d", ":">> \o Dec(q.a)

\* impl Display for Location
Display(q) ==
    CASE q.variant = "Coordinate" -> DisplayF64(q.a) \o <<",">> \o DisplayF64(q.b)
      [] q.variant = "City" -> q.a
      [] q.variant = "USZip" -> Dec(q.a)
      [] q.variant = "Post" -> q.a
      [] q.variant = "Metar" -> <<"m", "e", "t", "a", "r", ":">> \o q.a
      [] q.variant = "Iata" -> <<"i", "a", "t", "a", ":">> \o q.a
      [] q.variant = "Auto" -> <<"a", "u", "t", "o", ":", "i", "p">>
      [] q.variant = "IP" -> q.a
      [] q.variant = "SearchID" -> <<"i", "d", ":">> \o Dec(q.a)

QueryOf(q) == [pc |-> "render", q |-> q, token |-> None]

\* api_config.q is any Location.
InitQuery ==
    /\ PollingIdle
    /\ boot = BootIdle
    /\ codec = CodecIdle
    /\ inst = InstIdle
    /\ \/ \E lat \in Floats, lon \in Floats :
            query = QueryOf([variant |-> "Coordinate", a |-> lat, b |-> lon])
       \/ \E v \in StringVariants, t \in CodeTexts :
            query = QueryOf([variant |-> v, a |-> t, b |-> <<>>])
       \/ \E v \in SizeVariants, n \in Sizes :
            query = QueryOf([variant |-> v, a |-> n, b |-> <<>>])
       \/ query = QueryOf([variant |-> "Auto", a |-> <<>>, b |-> <<>>])

\* .query(&[("q", format!("{q}"))]): writing into a String cannot fail, so
\* format! always returns the text
RenderQuery ==
    /\ query.pc = "render"
    /\ query' = [query EXCEPT !.token = Some(Display(query.q)), !.pc = "done"]
    /\ UNCHANGED <<polling_vars, boot, codec, inst>>

NextQuery == RenderQuery

SpecQuery == InitQuery /\ [][NextQuery]_vars

\* the value of a variant as text: the text itself, the decimal numeral of a
\* usize
RawValue(q) == IF q.variant \in SizeVariants THEN Dec(q.a) ELSE q.a

\* C21: rendering always yields one token: "metar:" + c for Metar(c),
\* "iata:" + c for Iata(c), "id:" + n for SearchID(n), "auto:ip" for Auto,
\* latitude "," longitude for Coordinate, and the raw value for the others.
C21_LocationToken ==
    /\ query.pc = "done" => query.token # None
    /\ query.token # None =>
         LET t == query.token[1]
             v == query.q.variant
         IN  /\ v = "Metar" => t = <<"m", "e", "t", "a", "r", ":">> \o RawValue(query.q)
             /\ v = "Iata" => t = <<"i", "a", "t", "a", ":">> \o RawValue(query.q)
             /\ v = "SearchID" => t = <<"i", "d", ":">> \o RawValue(query.q)
             /\ v = "Auto" => t = <<"a", "u", "t", "o", ":", "i", "p">>
             /\ v = "Coordinate" =>
                    t = DisplayF64(query.q.a) \o <<",">> \o DisplayF64(query.q.b)
             /\ v \in {"City", "USZip", "Post", "IP"} => t = RawValue(query.q)

C21_Witness ==
    /\ query.q.variant = "Metar"
    /\ query.q.a = <<"K", "J", "F", "K">>
    /\ query.token = Some(<<"m", "e", "t", "a", "r", ":", "K", "J", "F", "K">>)


\* ---------------------------------------------------------------- pacing and the notification clock
\* a step that begins a loop iteration of daemon_main
IterationBegins == in_daemon /\ fetch_count' = fetch_count + 1

\* C22: an iteration that ends after its deadline (its start plus
\* exec_interval) is followed at once by the next iteration, and the
\* iteration that follows an overrun is itself followed no earlier than
\* exec_interval after its own start.
C22_OverrunAbsorbed ==
    [][IterationBegins =>
         /\ (now - iter_start > daemon_config.exec_interval => now' = now)
         /\ (overran => now' - iter_start >= daemon_config.exec_interval)]_vars

\* C24: when notif_interval < exec_interval, a notification tick is taken
\* only after the make_request of its iteration, not twice in an iteration,
\* and at least exec_interval after the tick before it.
C24_RefreshBoundedNotifications ==
    [][(daemon_config.notif_interval < daemon_config.exec_interval
          /\ notif_count' # notif_count) =>
         /\ pc = "check"
         /\ \A c \in Category : attempts[c] = (IF api_config.requests[c] THEN 1 ELSE 0)
         /\ (emit_last # None =>
               /\ emit_last[1] <= iter_start
               /\ now' - emit_last[1] >= daemon_config.exec_interval)]_vars

\* C25: the first iteration of daemon_main takes the notification tick
\* right after its make_request, whatever notif_interval is: no iteration
\* begins in the daemon before the first tick, and the check of the first
\* iteration takes the tick without time passing.
C25_FirstIterationNotifies ==
    /\ []((in_daemon /\ notif_count = 0) => (fetch_count = 1 /\ iter_start = start))
    /\ [][(in_daemon /\ notif_count = 0 /\ pc = "check") =>
            /\ notif_count' = 1
            /\ emit_last' = Some(now)
            /\ now' = now
            /\ pc' = "notif_current"]_vars

C25_Witness ==
    /\ in_daemon
    /\ pc = "notif_current"
    /\ notif_count = 1
    /\ fetch_count = 1
    /\ daemon_config.notif_interval = 600
    /\ emit_last = Some(start)


\* ---------------------------------------------------------------- daemon instance
\* What main's daemon branch meets in the working directory: whether
\* another instance runs its scheduler loop there, whether the directory
\* and the log files can be made, the pid file, what the kill command
\* does, and whether Daemonize::start succeeds.
PidFileStates == {"absent", "unreadable", "readable"}
KillStates == {"spawn_fails", "no_effect", "kills"}

InitInstance ==
    /\ PollingIdle
    /\ boot = BootIdle
    /\ codec = CodecIdle
    /\ query = QueryIdle
    /\ \E o \in BOOLEAN, d \in {"ok", "fail"}, l \in {"ok", "fail"},
          p \in PidFileStates, k \in KillStates, st \in {"ok", "panic"} :
         inst = [pc |-> "daemonize", other_running |-> o, dir |-> d,
                 logs |-> l, pid_file |-> p, kill |-> k, start |-> st,
                 result |-> "none", in_loop |-> FALSE]

\* terminate: the pid file is read and `kill <pid>` is run; only a failure
\* to read the file or to run the command is an error (the exit status of
\* kill is not looked at)
terminate(pid_file, kill) ==
    IF pid_file = "unreadable" THEN "PidFileInaccessible"
    ELSE IF kill = "spawn_fails" THEN "ProcessKillFailed"
    ELSE "Ok"

\* daemonize_unix: Ok, a DaemonizationError, or the panic of
\* .expect("Failed to start daemon")
daemonize_unix(i) ==
    IF i.dir = "fail" THEN "FailureToCreateWorkingDirectory"
    ELSE IF i.logs = "fail" THEN "FailureToCreateLogFile"
    ELSE IF i.pid_file # "absent" /\ terminate(i.pid_file, i.kill) # "Ok"
         THEN "ExistingInstance"
    ELSE IF i.start = "panic" THEN "panicked"
    ELSE "Ok"

\* whether daemonize_unix got as far as a kill that ends the other instance
OtherKilled(i) ==
    /\ i.dir = "ok"
    /\ i.logs = "ok"
    /\ i.pid_file = "readable"
    /\ i.kill = "kills"

\* main: match daemon::daemonize(&config) { .. }: every error is printed
Daemonize ==
    /\ inst.pc = "daemonize"
    /\ inst' = [inst EXCEPT
                  !.result = daemonize_unix(inst),
                  !.other_running = inst.other_running /\ ~OtherKilled(inst),
                  !.pc = IF daemonize_unix(inst) = "panicked"
                         THEN "panicked" ELSE "daemon_main"]
    /\ UNCHANGED <<polling_vars, boot, codec, query>>

\* main: daemon_main(api, daemon_config, api_config), the statement after
\* the match
EnterDaemonMain ==
    /\ inst.pc = "daemon_main"
    /\ inst' = [inst EXCEPT !.in_loop = TRUE, !.pc = "loop"]
    /\ UNCHANGED <<polling_vars, boot, codec, query>>

NextInstance ==
    \/ Daemonize
    \/ EnterDaemonMain

SpecInstance == InitInstance /\ [][NextInstance]_vars

\* C23: the process runs its scheduler loop only when no other instance
\* runs one in the working directory, and never after daemonize returned
\* an error.
C23_SingleInstance ==
    /\ ~(inst.in_loop /\ inst.other_running)
    /\ (inst.in_loop => inst.result = "Ok")


\* ---------------------------------------------------------------- duration codec: trailing text
\* the text after the last unit marker of a normalised text (the whole text
\* when it has no marker)
TrailingText(n) ==
    IF UnitPositions(n) = {} THEN n
    ELSE SubSeq(n, 1 + (CHOOSE j \in UnitPositions(n) :
                           \A k \in UnitPositions(n) : k <= j), Len(n))

\* C26: parse returns a duration only when the whole input, lowercased and
\* without spaces, is a sequence of <digits><unit> segments; in particular
\* never when text follows the last unit marker.
C26_WholeInputConsumed ==
    (codec.parsed # None /\ codec.parsed[1].tag = "Ok") =>
        /\ TrailingText(Normalize(codec.input)) = <<>>
        /\ WellFormed(Normalize(codec.input))

====
